---- MODULE Spec2Model ----
(***************************************************************************)
(* Model of the lattice-surgery compiler's time-slice composer             *)
(* (src/topological_assembly.py) over the patch/lattice data model         *)
(* (src/patches.py).                                                       *)
(*                                                                         *)
(* A cell is a pair <<col, row>>.  An edge is a record                     *)
(* [border_type, cell, orientation].  A patch is a record                  *)
(* [patch_type, cells, edges] with cells and edges kept as sequences in    *)
(* list order.  A lattice is a record [patches, min_rows, min_cols].       *)
(* Lattice objects live in `heap` (object identity = index), and           *)
(* qubit_patch_slices is the composer's list of references to them.        *)
(***************************************************************************)
EXTENDS Integers, Sequences, FiniteSets, TLC

VARIABLES
    heap,                \* the Lattice objects, by identity
    qubit_patch_slices,  \* TopologicalAssemblyComposer.qubit_patch_slices: references into heap
    call,                \* what the last call was given, found and raised
    ncalls,              \* calls made so far
    nmeasures            \* measureMultiPatch calls made so far

vars == <<heap, qubit_patch_slices, call, ncalls, nmeasures>>

(***************************************************************************)
(* Bounds of the exploration.                                              *)
(***************************************************************************)
\* Longest behaviour explored, in composer calls.
MaxCalls == 3
\* Most measureMultiPatch calls in one behaviour.
MaxMeasures == 1

(***************************************************************************)
(* patches.py: enums and tables                                            *)
(***************************************************************************)
Orientation == {"Top", "Bottom", "Left", "Right"}

EdgeType == {"Solid", "SolidStiched", "Dashed", "DashedStiched", "AncillaJoin"}

PatchType == {"Qubit", "DistillationQubit", "Ancilla"}

PauliOperator == {"I", "X", "Y", "Z"}

\* stitched_type with the two stitched types exchanged.
stitched_type_crossed(self) ==
    IF self = "Solid" THEN "DashedStiched"
    ELSE IF self = "Dashed" THEN "SolidStiched"
    ELSE self

stitched_type(self) ==
    IF self = "Solid" THEN "SolidStiched"
    ELSE IF self = "Dashed" THEN "DashedStiched"
    ELSE self

\* unstitched_type with the DashedStiched case lost.
unstitched_type_solid_only(self) ==
    IF self = "SolidStiched" THEN "Solid" ELSE self

unstitched_type(self) ==
    IF self = "SolidStiched" THEN "Solid"
    ELSE IF self = "DashedStiched" THEN "Dashed"
    ELSE self

\* The table with an entry for every operator, Y and I going the way of Z.
PAULI_OPERATOR_TO_EDGE_MAP_total ==
    [op \in PauliOperator |-> IF op = "X" THEN "Dashed" ELSE "Solid"]

\* The table with the two border types exchanged.
PAULI_OPERATOR_TO_EDGE_MAP_swapped ==
    [op \in {"X", "Z"} |-> IF op = "X" THEN "Solid" ELSE "Dashed"]

\* The dict has exactly the keys X and Z; any other key raises KeyError.
PAULI_OPERATOR_TO_EDGE_MAP == [op \in {"X", "Z"} |-> IF op = "X" THEN "Dashed" ELSE "Solid"]

Edge(edge_type, cell, orientation) ==
    [border_type |-> edge_type, cell |-> cell, orientation |-> orientation]

getNeighbouringCell(edge) ==
    LET col == edge.cell[1]
        row == edge.cell[2]
    IN  CASE edge.orientation = "Top"    -> <<col, row - 1>>
          [] edge.orientation = "Bottom" -> <<col, row + 1>>
          [] edge.orientation = "Left"   -> <<col - 1, row>>
          [] edge.orientation = "Right"  -> <<col + 1, row>>

isStiched(edge) == edge.border_type \in {"SolidStiched", "DashedStiched"}

Patch(patch_type, cells, edges) ==
    [patch_type |-> patch_type, cells |-> cells, edges |-> edges]

getRepresentative(patch) == patch.cells[1]

Lattice(patches, min_rows, min_cols) ==
    [patches |-> patches, min_rows |-> min_rows, min_cols |-> min_cols]

Range(s) == {s[i] : i \in DOMAIN s}

\* Every cell of every patch of the lattice (with the owner's list position).
AllCells(lattice) ==
    UNION {Range(lattice.patches[j].cells) : j \in DOMAIN lattice.patches}

SetMax(S) == CHOOSE m \in S : \A n \in S : n <= m

\* max() of an empty sequence raises ValueError: callers test AllCells first.
getMaxCoord(lattice, coord) ==
    LET all_coords  == {c[coord] : c \in AllCells(lattice)}
        lower_bound == IF coord = 2 THEN lattice.min_rows ELSE lattice.min_cols
        top         == 1 + SetMax(all_coords)
    IN  IF top >= lower_bound THEN top ELSE lower_bound

getCols(lattice) == getMaxCoord(lattice, 1)

getRows(lattice) == getMaxCoord(lattice, 2)

clear(lattice) == [lattice EXCEPT !.patches = <<>>]

\* Position in lattice.patches of the first patch that lists the cell; 0 is None.
getPatchOfCell(lattice, target) ==
    LET owners == {j \in DOMAIN lattice.patches : target \in Range(lattice.patches[j].cells)}
    IN  IF owners = {} THEN 0 ELSE CHOOSE j \in owners : \A k \in owners : j <= k

cellIsFree(lattice, target) == getPatchOfCell(lattice, target) = 0

\* getPatchRepresentative answering every cell with the cell itself.
getPatchRepresentative_self(lattice, cell) == cell

getPatchRepresentative(lattice, cell) ==
    LET maybe_patch == getPatchOfCell(lattice, cell)
    IN  IF maybe_patch # 0 THEN lattice.patches[maybe_patch].cells[1] ELSE cell

(***************************************************************************)
(* topological_assembly.py: LatticeLayoutInitializer                       *)
(***************************************************************************)
singleSquarePatch(cell, patch_type) ==
    Patch(patch_type, <<cell>>, <<
        Edge("Solid",  cell, "Top"),
        Edge("Solid",  cell, "Bottom"),
        Edge("Dashed", cell, "Left"),
        Edge("Dashed", cell, "Right")>>)

\* The first two-cell patch of simpleRightFacingDistillery, at top-left (x, y).
twoCellDistilleryPatch(x, y) ==
    Patch("DistillationQubit", << <<x, y>>, <<x, y + 1>> >>, <<
        Edge("Solid",  <<x, y>>,     "Top"),
        Edge("Solid",  <<x, y>>,     "Left"),
        Edge("Dashed", <<x, y>>,     "Right"),
        Edge("Dashed", <<x, y + 1>>, "Left"),
        Edge("Dashed", <<x, y + 1>>, "Bottom"),
        Edge("Solid",  <<x, y + 1>>, "Right")>>)

\* As simpleLayout builds a lattice: a list of patches, 2 rows and 0 columns at least.
\* A two-cell distillery patch at (1,0)-(1,1), a square patch at (0,1) on its
\* left and a square patch at (2,0) on its right: 3 columns by 2 rows, with the
\* cells (0,0) and (2,1) free.
CompactLayout ==
    Lattice(<< twoCellDistilleryPatch(1, 0),
               singleSquarePatch(<<0, 1>>, "Qubit"),
               singleSquarePatch(<<2, 0>>, "Qubit") >>, 2, 0)

\* Three square patches at columns 0, 4 and 6 of row 0: 7 columns by 2 rows.
LinearLayout ==
    Lattice(<< singleSquarePatch(<<0, 0>>, "Qubit"),
               singleSquarePatch(<<4, 0>>, "Qubit"),
               singleSquarePatch(<<6, 0>>, "Qubit") >>, 2, 0)

(***************************************************************************)
(* The search graph (igraph.Graph(directed=True)): vertex names and        *)
(* directed edges between names.  A vertex name is the str() of a cell,    *)
(* a value of another type than the cell itself.                           *)
(***************************************************************************)
Str(cell) == <<"str", cell[1], cell[2]>>

make_tuple(name) == <<name[2], name[3]>>

make_graph_of_free_cells(lattice) ==
    LET nrows == getRows(lattice)
        ncols == getCols(lattice)
        grid  == {<<col, row>> : col \in 0..(ncols - 1), row \in 0..(nrows - 1)}
        free  == {c \in grid : cellIsFree(lattice, c)}
        neighbours(c) == {<<c[1], c[2] + 1>>, <<c[1], c[2] - 1>>,
                          <<c[1] + 1, c[2]>>, <<c[1] - 1, c[2]>>}
    IN  [vs |-> {Str(c) : c \in free},
         es |-> UNION {{<<Str(c), Str(n)>> : n \in neighbours(c) \cap free} : c \in free}]

add_vertices(g, names) == [g EXCEPT !.vs = g.vs \cup Range(names)]

\* The request: a dict in insertion order, as a sequence of <<cell, operator>>.
RequestKeys(patch_pauli_operator_map) ==
    [i \in DOMAIN patch_pauli_operator_map |-> patch_pauli_operator_map[i][1]]

OperatorOf(patch_pauli_operator_map, cell) ==
    LET i == CHOOSE k \in DOMAIN patch_pauli_operator_map :
                 patch_pauli_operator_map[k][1] = cell
    IN  patch_pauli_operator_map[i][2]

\* The edges one active patch contributes.  The test that picks the outward
\* direction compares the representative, a tuple, with the source vertex, a str.
PatchDirectedEdges(g, patch, requested_edge_type, source_patch_vertex) ==
    LET patch_representative == Str(getRepresentative(patch))
        hits == {i \in DOMAIN patch.edges :
                    /\ patch.edges[i].border_type = requested_edge_type
                    /\ Str(getNeighbouringCell(patch.edges[i])) \in g.vs}
    IN  {IF getRepresentative(patch) = source_patch_vertex
            THEN <<patch_representative, Str(getNeighbouringCell(patch.edges[i]))>>
            ELSE <<Str(getNeighbouringCell(patch.edges[i])), patch_representative>>
         : i \in hits}

\* The loop over lattice.patches from position j on; raised names the exception
\* that ends it, "none" when it runs to the end.
RECURSIVE add_directed_edges(_, _, _, _, _, _)
add_directed_edges(g, lattice, patch_pauli_operator_map, source_patch_vertex, tagret_patch_vertex, j) ==
    IF j > Len(lattice.patches) THEN [raised |-> "none", g |-> g]
    ELSE LET patch == lattice.patches[j]
         IN  IF patch.cells = <<>> THEN [raised |-> "IndexError", g |-> g]
             ELSE IF /\ Str(getRepresentative(patch)) # source_patch_vertex
                     /\ Str(getRepresentative(patch)) \notin Range(tagret_patch_vertex)
             THEN add_directed_edges(g, lattice, patch_pauli_operator_map,
                                     source_patch_vertex, tagret_patch_vertex, j + 1)
             ELSE LET operator == OperatorOf(patch_pauli_operator_map, getRepresentative(patch))
                  IN  IF operator \notin DOMAIN PAULI_OPERATOR_TO_EDGE_MAP
                      THEN [raised |-> "KeyError", g |-> g]
                      ELSE add_directed_edges(
                               [g EXCEPT !.es = g.es \cup PatchDirectedEdges(g, patch,
                                    PAULI_OPERATOR_TO_EDGE_MAP[operator], source_patch_vertex)],
                               lattice, patch_pauli_operator_map,
                               source_patch_vertex, tagret_patch_vertex, j + 1)

(***************************************************************************)
(* g.get_shortest_paths(source, targets, mode='all', output='vpath'):      *)
(* breadth-first search that follows every edge in both directions.  The   *)
(* library returns one shortest path per target and the empty path for a   *)
(* target it cannot reach; which of several shortest paths it returns is   *)
(* left open here.                                                         *)
(***************************************************************************)
\* mode='all': an edge joins its two ends whatever its direction.
Reachable1(g, u) == {v \in g.vs : <<u, v>> \in g.es \/ <<v, u>> \in g.es}

\* levels[k] is the set of vertices at distance k - 1 from the source.
RECURSIVE BfsLevels(_, _, _)
BfsLevels(g, levels, seen) ==
    LET frontier == levels[Len(levels)]
        next     == (UNION {Reachable1(g, u) : u \in frontier}) \ seen
    IN  IF next = {} THEN levels
        ELSE BfsLevels(g, Append(levels, next), seen \cup next)

RECURSIVE PathsAtLevel(_, _, _, _)
PathsAtLevel(g, levels, k, v) ==
    IF k = 1 THEN {<<v>>}
    ELSE UNION {{Append(p, v) : p \in PathsAtLevel(g, levels, k - 1, u)}
                : u \in levels[k - 1] \cap Reachable1(g, v)}

ShortestPathsTo(g, levels, v) ==
    LET at == {k \in DOMAIN levels : v \in levels[k]}
    IN  IF at = {} THEN {<<>>}
        ELSE PathsAtLevel(g, levels, CHOOSE k \in at : TRUE, v)

RECURSIVE PathLists(_, _, _, _)
PathLists(g, levels, targets, i) ==
    IF i > Len(targets) THEN {<<>>}
    ELSE {<<p>> \o rest : p \in ShortestPathsTo(g, levels, targets[i]),
                          rest \in PathLists(g, levels, targets, i + 1)}

get_shortest_paths(g, source, targets) ==
    PathLists(g, BfsLevels(g, <<{source}>>, {source}), targets, 1)

(***************************************************************************)
(* add_ancilla_to_lattice_from_paths                                       *)
(***************************************************************************)
\* for edge in patch.edges: if edge.getNeighbouringCell() == cell: stitch it
StitchTowards(lattice, j, cell) ==
    [lattice EXCEPT !.patches[j].edges =
        [i \in DOMAIN lattice.patches[j].edges |->
            IF getNeighbouringCell(lattice.patches[j].edges[i]) = cell
            THEN [lattice.patches[j].edges[i] EXCEPT
                     !.border_type = stitched_type(lattice.patches[j].edges[i].border_type)]
            ELSE lattice.patches[j].edges[i]]]

\* The loop over the paths from position i on.  An exception leaves the lattice
\* as the loop had changed it so far.  A path that is not empty runs from the
\* source to another vertex, so it has two vertices at least.
RECURSIVE StitchPaths(_, _, _, _)
StitchPaths(lattice, paths, i, all_ancilla_cells) ==
    IF i > Len(paths)
    THEN [raised |-> "none", lattice |-> lattice, all_ancilla_cells |-> all_ancilla_cells]
    ELSE LET path == paths[i]
             n    == Len(path)
         IN  IF n = 0
             THEN [raised |-> "IndexError", lattice |-> lattice,
                   all_ancilla_cells |-> all_ancilla_cells]
             ELSE LET source_patch == getPatchOfCell(lattice, path[1])
                  IN  IF source_patch = 0
                      THEN [raised |-> "AttributeError", lattice |-> lattice,
                            all_ancilla_cells |-> all_ancilla_cells]
                      ELSE LET stitched1    == StitchTowards(lattice, source_patch, path[2])
                               target_patch == getPatchOfCell(stitched1, path[n])
                           IN  IF target_patch = 0
                               THEN [raised |-> "AttributeError", lattice |-> stitched1,
                                     all_ancilla_cells |-> all_ancilla_cells]
                               ELSE StitchPaths(
                                       StitchTowards(stitched1, target_patch, path[n - 1]),
                                       paths, i + 1,
                                       all_ancilla_cells \cup {path[k] : k \in 2..(n - 1)})

CellBefore(a, b) == a[2] < b[2] \/ (a[2] = b[2] /\ a[1] < b[1])

RECURSIVE SortCells(_)
SortCells(S) ==
    IF S = {} THEN <<>>
    ELSE LET first == CHOOSE c \in S : \A d \in S \ {c} : CellBefore(c, d)
         IN  <<first>> \o SortCells(S \ {first})

\* list(a_set): the order is the set's iteration order.  Only which cell comes
\* first can be observed (it is the patch's representative), so the orders are
\* told apart by their first cell.
ListOfSet(S) ==
    IF S = {} THEN {<<>>}
    ELSE {<<first>> \o SortCells(S \ {first}) : first \in S}

add_ancilla_to_lattice_from_paths(lattice, paths) ==
    LET looped == StitchPaths(lattice, paths, 1, {})
    IN  IF looped.raised # "none"
        THEN {[raised |-> looped.raised, lattice |-> looped.lattice]}
        ELSE {[raised |-> "none",
               lattice |-> [looped.lattice EXCEPT !.patches =
                               Append(looped.lattice.patches, Patch("Ancilla", cells, <<>>))]]
              : cells \in ListOfSet(looped.all_ancilla_cells)}

(***************************************************************************)
(* compute_ancilla_cells: every way the call can end, as records           *)
(* [raised, lattice, routed, shortest_paths].  lattice is the lattice as   *)
(* the call leaves it; routed is the request once the search graph is      *)
(* complete (<<>> before that); shortest_paths are the paths as cells.     *)
(***************************************************************************)
Raise(exception, lattice) ==
    [raised |-> exception, lattice |-> lattice, routed |-> <<>>, shortest_paths |-> <<>>]

PathCells(paths) == [i \in DOMAIN paths |-> [k \in DOMAIN paths[i] |-> make_tuple(paths[i][k])]]

compute_ancilla_cells(lattice, patch_pauli_operator_map) ==
    LET keys == RequestKeys(patch_pauli_operator_map)
    IN  IF \E i \in DOMAIN keys : getPatchRepresentative(lattice, keys[i]) # keys[i]
        THEN {Raise("AssertionError", lattice)}
        ELSE IF AllCells(lattice) = {}
        THEN {Raise("ValueError", lattice)}
        ELSE IF keys = <<>>
        THEN {Raise("IndexError", lattice)}
        ELSE
        LET active_qubits == [i \in DOMAIN keys |-> Str(keys[i])]
            g0            == add_vertices(make_graph_of_free_cells(lattice), active_qubits)
            source_qubit  == active_qubits[1]
            target_qubits == SubSeq(active_qubits, 2, Len(active_qubits))
            edged         == add_directed_edges(g0, lattice, patch_pauli_operator_map,
                                                source_qubit, target_qubits, 1)
        IN  IF edged.raised # "none"
            THEN {Raise(edged.raised, lattice)}
            ELSE UNION {
                   {[raised |-> done.raised, lattice |-> done.lattice,
                     routed |-> patch_pauli_operator_map, shortest_paths |-> PathCells(paths)]
                    : done \in add_ancilla_to_lattice_from_paths(lattice, PathCells(paths))}
                   : paths \in get_shortest_paths(edged.g, source_qubit, target_qubits)}

(***************************************************************************)
(* The requests a caller makes: distinct cells of the lattice's qubit      *)
(* patches, at most as many as there are qubit patches, each with a Pauli  *)
(* operator.                                                               *)
(***************************************************************************)
KeyCells(lattice) ==
    UNION {Range(lattice.patches[j].cells) :
           j \in {k \in DOMAIN lattice.patches : lattice.patches[k].patch_type # "Ancilla"}}

DistinctSeqs(S, n) ==
    {ks \in [1..n -> S] : \A i \in 1..n : \A k \in 1..n : ks[i] = ks[k] => i = k}

Requests(lattice) ==
    UNION {{[i \in 1..n |-> <<ks[i], ops[i]>>] :
                ks \in DistinctSeqs(KeyCells(lattice), n), ops \in [1..n -> PauliOperator]}
           : n \in 0..Cardinality({k \in DOMAIN lattice.patches :
                                       lattice.patches[k].patch_type # "Ancilla"})}

(***************************************************************************)
(* TopologicalAssemblyComposer                                             *)
(***************************************************************************)
Last == qubit_patch_slices[Len(qubit_patch_slices)]

\* The lattice of slice i.
Slice(i) == heap[qubit_patch_slices[i]]

NoCall(op, before) ==
    [op |-> op, raised |-> "none", before |-> before, nonrep_key |-> FALSE,
     unsupported_op |-> FALSE, routed |-> <<>>, shortest_paths |-> <<>>]

Init ==
    /\ heap = <<CompactLayout>>
    /\ qubit_patch_slices = <<1>>
    /\ call = NoCall("__init__", CompactLayout)
    /\ ncalls = 0
    /\ nmeasures = 0

\* newTimeSlice inserting the copy at the front of the history.
newTimeSlice_prepend ==
    /\ ncalls < MaxCalls
    /\ heap' = Append(heap, heap[Last])
    /\ qubit_patch_slices' = <<Len(heap) + 1>> \o qubit_patch_slices
    /\ call' = NoCall("newTimeSlice", heap[Last])
    /\ ncalls' = ncalls + 1
    /\ UNCHANGED nmeasures

\* newTimeSlice without the deepcopy: the last object is appended once more.
newTimeSlice_shared ==
    /\ ncalls < MaxCalls
    /\ qubit_patch_slices' = Append(qubit_patch_slices, Last)
    /\ call' = NoCall("newTimeSlice", heap[Last])
    /\ ncalls' = ncalls + 1
    /\ UNCHANGED <<heap, nmeasures>>

\* append(deepcopy(slices[-1])): a new object with the last lattice's value.
newTimeSlice ==
    /\ ncalls < MaxCalls
    /\ heap' = Append(heap, heap[Last])
    /\ qubit_patch_slices' = Append(qubit_patch_slices, Len(heap) + 1)
    /\ call' = NoCall("newTimeSlice", heap[Last])
    /\ ncalls' = ncalls + 1
    /\ UNCHANGED nmeasures

\* append(slices[-1]): the same object once more.  Neither argument is read.
initQubit ==
    /\ ncalls < MaxCalls
    /\ qubit_patch_slices' = Append(qubit_patch_slices, Last)
    /\ call' = NoCall("initQubit", heap[Last])
    /\ ncalls' = ncalls + 1
    /\ UNCHANGED <<heap, nmeasures>>

\* What one call leaves behind: the lattice, and the record of the call.
Measured(lattice, patch_pauli_operator_map, done) ==
    [lattice |-> done.lattice,
     call |-> [op |-> "measureMultiPatch",
               raised |-> done.raised,
               before |-> lattice,
               nonrep_key |->
                   \E i \in DOMAIN patch_pauli_operator_map :
                      LET owner == getPatchOfCell(lattice, patch_pauli_operator_map[i][1])
                      IN  /\ owner # 0
                          /\ lattice.patches[owner].cells[1] # patch_pauli_operator_map[i][1],
               unsupported_op |->
                   \E i \in DOMAIN patch_pauli_operator_map :
                      /\ ~cellIsFree(lattice, patch_pauli_operator_map[i][1])
                      /\ patch_pauli_operator_map[i][2] \notin {"X", "Z"},
               routed |-> done.routed,
               shortest_paths |-> done.shortest_paths]]

measureMultiPatchOf(requests) ==
    /\ ncalls < MaxCalls
    /\ nmeasures < MaxMeasures
    /\ \E m \in UNION {{Measured(heap[Last], patch_pauli_operator_map, done)
                          : done \in compute_ancilla_cells(heap[Last], patch_pauli_operator_map)}
                        : patch_pauli_operator_map \in requests} :
            /\ heap' = [heap EXCEPT ![Last] = m.lattice]
            /\ call' = m.call
    /\ ncalls' = ncalls + 1
    /\ nmeasures' = nmeasures + 1
    /\ UNCHANGED qubit_patch_slices

measureMultiPatch == measureMultiPatchOf(Requests(heap[Last]))

\* clearAncilla without the filter: the borders are unstitched, the patches stay.
clearAncillaOf_borders_only(lattice) ==
    [lattice EXCEPT !.patches =
        [j \in DOMAIN lattice.patches |->
            [lattice.patches[j] EXCEPT !.edges =
                [i \in DOMAIN lattice.patches[j].edges |->
                    [lattice.patches[j].edges[i] EXCEPT
                        !.border_type = unstitched_type(lattice.patches[j].edges[i].border_type)]]]]]

clearAncillaOf(lattice) ==
    LET unstitched ==
            [j \in DOMAIN lattice.patches |->
                [lattice.patches[j] EXCEPT !.edges =
                    [i \in DOMAIN lattice.patches[j].edges |->
                        [lattice.patches[j].edges[i] EXCEPT
                            !.border_type = unstitched_type(lattice.patches[j].edges[i].border_type)]]]]
    IN  [lattice EXCEPT !.patches = SelectSeq(unstitched, LAMBDA patch : patch.patch_type # "Ancilla")]

clearAncilla ==
    /\ ncalls < MaxCalls
    /\ heap' = [heap EXCEPT ![Last] = clearAncillaOf(heap[Last])]
    /\ call' = NoCall("clearAncilla", heap[Last])
    /\ ncalls' = ncalls + 1
    /\ UNCHANGED <<qubit_patch_slices, nmeasures>>

clearLattice ==
    /\ ncalls < MaxCalls
    /\ heap' = [heap EXCEPT ![Last] = clear(heap[Last])]
    /\ call' = NoCall("clearLattice", heap[Last])
    /\ ncalls' = ncalls + 1
    /\ UNCHANGED <<qubit_patch_slices, nmeasures>>

\* return self.qubit_patch_slices: the list of the lattices, in its order.
getSlices == [i \in DOMAIN qubit_patch_slices |-> heap[qubit_patch_slices[i]]]

\* The composer over CompactLayout, under every request.
Next ==
    \/ newTimeSlice
    \/ measureMultiPatch
    \/ clearAncilla
    \/ clearLattice

Spec == Init /\ [][Next]_vars

\* The composer over LinearLayout, under the request of debug_lattice_view.py.
LinearRequest == << <<<<0, 0>>, "X">>, <<<<4, 0>>, "Z">>, <<<<6, 0>>, "X">> >>

InitLinear ==
    /\ heap = <<LinearLayout>>
    /\ qubit_patch_slices = <<1>>
    /\ call = NoCall("__init__", LinearLayout)
    /\ ncalls = 0
    /\ nmeasures = 0

measureLinear == measureMultiPatchOf({LinearRequest})

NextLinear ==
    \/ newTimeSlice
    \/ measureLinear
    \/ clearAncilla
    \/ clearLattice

SpecLinear == InitLinear /\ [][NextLinear]_vars

\* The composer over CompactLayout with initQubit among its operations.
NextWithInitQubit ==
    \/ initQubit
    \/ newTimeSlice
    \/ measureMultiPatch
    \/ clearAncilla
    \/ clearLattice

SpecWithInitQubit == Init /\ [][NextWithInitQubit]_vars

\* One Edge object on its own, under the two transforms of its border type.
\* There is no composer: the heap holds the edge, there are no slices, and
\* nmeasures counts the applications of stitched_type.
EdgeInputs == {Edge(edge_type, <<0, 0>>, orientation) : edge_type \in EdgeType, orientation \in Orientation}

InitBorder ==
    /\ heap \in {<<edge>> : edge \in EdgeInputs}
    /\ qubit_patch_slices = <<>>
    /\ call = NoCall("Edge", heap[1])
    /\ ncalls = 0
    /\ nmeasures = 0

\* edge.border_type = edge.border_type.stitched_type()
stitch ==
    /\ ncalls < MaxCalls
    /\ heap' = <<[heap[1] EXCEPT !.border_type = stitched_type(heap[1].border_type)]>>
    /\ call' = NoCall("stitched_type", heap[1])
    /\ ncalls' = ncalls + 1
    /\ nmeasures' = nmeasures + 1
    /\ UNCHANGED qubit_patch_slices

\* edge.border_type = edge.border_type.unstitched_type()
unstitch ==
    /\ ncalls < MaxCalls
    /\ heap' = <<[heap[1] EXCEPT !.border_type = unstitched_type(heap[1].border_type)]>>
    /\ call' = NoCall("unstitched_type", heap[1])
    /\ ncalls' = ncalls + 1
    /\ UNCHANGED <<qubit_patch_slices, nmeasures>>

NextBorder ==
    \/ stitch
    \/ unstitch

SpecBorder == InitBorder /\ [][NextBorder]_vars

(***************************************************************************)
(* Vocabulary of the properties                                            *)
(***************************************************************************)
LastIndex == Len(qubit_patch_slices)

Measured1 == call.op = "measureMultiPatch"

CellsOf(patch) == Range(patch.cells)

\* The borders of a lattice, by patch position and edge position.
Borders(lattice) ==
    UNION {{<<j, i>> : i \in DOMAIN lattice.patches[j].edges} : j \in DOMAIN lattice.patches}

StitchedBorders(lattice) ==
    {b \in Borders(lattice) : isStiched(lattice.patches[b[1]].edges[b[2]])}

AncillaPatches(lattice) ==
    {j \in DOMAIN lattice.patches : lattice.patches[j].patch_type = "Ancilla"}

\* The borders the last call turned from an unstitched into a stitched type.
NewlyStitched ==
    {b \in StitchedBorders(heap[Last]) :
        /\ b \in Borders(call.before)
        /\ ~isStiched(call.before.patches[b[1]].edges[b[2]])}

\* The last call appended one patch, of kind Ancilla, to the lattice.
AppendedPatch ==
    /\ Len(heap[Last].patches) = Len(call.before.patches) + 1
    /\ heap[Last].patches[Len(heap[Last].patches)].patch_type = "Ancilla"

(***************************************************************************)
(* C1  Snapshot isolation: whatever the composer does next, every slice    *)
(* before the last one keeps its lattice exactly (patches, cells, border   *)
(* types): newTimeSlice only appends, and every mutation goes to the last  *)
(* slice alone.                                                            *)
(***************************************************************************)
SnapshotIsolation ==
    [][\A i \in 1..(LastIndex - 1) :
          heap'[qubit_patch_slices'[i]] = heap[qubit_patch_slices[i]]]_vars

\* A slice appended by newTimeSlice was mutated and its predecessor still holds
\* the lattice as it was before the mutation.
SnapshotIsolationWitness ==
    /\ LastIndex >= 2
    /\ call.op \in {"measureMultiPatch", "clearAncilla", "clearLattice"}
    /\ heap[Last] # call.before
    /\ Slice(LastIndex - 1) = call.before

(***************************************************************************)
(* C2  Free-cell-only ancilla: when measureMultiPatch appends an ancilla   *)
(* patch, every cell of that patch was free in the lattice right before    *)
(* the call.                                                               *)
(***************************************************************************)
AncillaFromFreeCells ==
    (Measured1 /\ AppendedPatch) =>
        \A c \in CellsOf(heap[Last].patches[Len(heap[Last].patches)]) :
            cellIsFree(call.before, c)

(***************************************************************************)
(* C3  Atomic routing failure: when the search finds no path to one of     *)
(* the targets, measureMultiPatch raises and leaves the lattice exactly    *)
(* as it was before the call.                                              *)
(***************************************************************************)
AtomicRoutingFailure ==
    (Measured1 /\ \E i \in DOMAIN call.shortest_paths : call.shortest_paths[i] = <<>>) =>
        /\ call.raised # "none"
        /\ heap[Last] = call.before

(***************************************************************************)
(* C4  Patch disjointness: in every slice of the history, no cell belongs  *)
(* to two patches.                                                         *)
(***************************************************************************)
PatchesDisjoint ==
    \A s \in DOMAIN qubit_patch_slices :
        \A j \in DOMAIN Slice(s).patches : \A k \in DOMAIN Slice(s).patches :
            j # k => CellsOf(Slice(s).patches[j]) \cap CellsOf(Slice(s).patches[k]) = {}

(***************************************************************************)
(* C5  Routing respects operator borders: every border of a requested      *)
(* patch that measureMultiPatch turned into a stitched type had, before    *)
(* the call, the type its patch's requested operator requires (Dashed for  *)
(* X, Solid for Z).                                                        *)
(***************************************************************************)
StitchingRespectsOperator ==
    Measured1 =>
        \A b \in NewlyStitched :
            LET patch == call.before.patches[b[1]]
            IN  getRepresentative(patch) \in Range(RequestKeys(call.routed)) =>
                   patch.edges[b[2]].border_type =
                      PAULI_OPERATOR_TO_EDGE_MAP[OperatorOf(call.routed, getRepresentative(patch))]

(***************************************************************************)
(* C6  clearAncilla is complete and idempotent: right after a clearAncilla *)
(* call the last slice holds no Ancilla patch and no stitched border, and  *)
(* clearing it once more gives the same lattice.                           *)
(***************************************************************************)
ClearAncillaCompleteIdempotent ==
    call.op = "clearAncilla" =>
        /\ AncillaPatches(heap[Last]) = {}
        /\ StitchedBorders(heap[Last]) = {}
        /\ clearAncillaOf(heap[Last]) = heap[Last]

\* clearAncilla ran on a lattice that held an ancilla patch and stitched borders.
ClearAncillaWitness ==
    /\ call.op = "clearAncilla"
    /\ AncillaPatches(call.before) # {}
    /\ \E b \in StitchedBorders(call.before) :
          call.before.patches[b[1]].edges[b[2]].border_type = "DashedStiched"
    /\ \E b \in StitchedBorders(call.before) :
          call.before.patches[b[1]].edges[b[2]].border_type = "SolidStiched"

(***************************************************************************)
(* C7  Non-representative key: a request with a key that is a cell of a    *)
(* patch but not its first cell fails the precondition (AssertionError)    *)
(* before the search graph is built, and the lattice is unchanged.         *)
(***************************************************************************)
NonRepresentativeKeyRejected ==
    (Measured1 /\ call.nonrep_key) =>
        /\ call.raised = "AssertionError"
        /\ call.routed = <<>>
        /\ heap[Last] = call.before

\* A request keyed by a non-representative cell was made on a lattice with patches.
NonRepresentativeKeyWitness ==
    /\ Measured1
    /\ call.nonrep_key
    /\ call.before.patches # <<>>

(***************************************************************************)
(* C8  Unsupported operator: a request that gives a patch an operator      *)
(* other than X and Z raises and leaves the lattice unchanged.             *)
(***************************************************************************)
UnsupportedOperatorRejected ==
    (Measured1 /\ call.unsupported_op) =>
        /\ call.raised # "none"
        /\ heap[Last] = call.before

\* A request of representative keys only, one of them with Y or I, hit the table.
UnsupportedOperatorWitness ==
    /\ Measured1
    /\ call.unsupported_op
    /\ ~call.nonrep_key
    /\ call.raised = "KeyError"

(***************************************************************************)
(* C9  Degenerate zero-cell ancilla: when every target is reached and no   *)
(* path has an interior cell, the call does not fail, appends no patch,    *)
(* and leaves no patch with an empty cell list in the lattice.             *)
(***************************************************************************)
NoZeroCellAncilla ==
    (/\ Measured1
     /\ call.shortest_paths # <<>>
     /\ \A i \in DOMAIN call.shortest_paths : Len(call.shortest_paths[i]) = 2) =>
        /\ call.raised = "none"
        /\ Len(heap[Last].patches) = Len(call.before.patches)
        /\ \A j \in DOMAIN heap[Last].patches : heap[Last].patches[j].cells # <<>>

(***************************************************************************)
(* C10  End-to-end scenario A, as stated: on the lattice of three square   *)
(* patches at (0,0), (4,0), (6,0) with 2 rows at least, the request        *)
(* {(0,0): X, (4,0): Z, (6,0): X} succeeds, appends exactly one ancilla    *)
(* patch made of cells that were free, and stitches (0,0) facing right,    *)
(* (4,0) facing left and right, and (6,0) facing left.                     *)
(***************************************************************************)
\* The sides of the cells whose border has a stitched type.
StitchedSides(lattice) ==
    {<<lattice.patches[b[1]].edges[b[2]].cell, lattice.patches[b[1]].edges[b[2]].orientation>>
     : b \in StitchedBorders(lattice)}

\* The last call was the scenario's request on the untouched linear layout.
LinearMeasured == Measured1 /\ call.before = LinearLayout

OneAncillaOfFreeCells ==
    /\ call.raised = "none"
    /\ AppendedPatch
    /\ Cardinality(AncillaPatches(heap[Last])) = 1
    /\ CellsOf(heap[Last].patches[Len(heap[Last].patches)]) # {}
    /\ \A c \in CellsOf(heap[Last].patches[Len(heap[Last].patches)]) :
          cellIsFree(call.before, c)

ScenarioAStitchesLeftRight ==
    LinearMeasured =>
        /\ OneAncillaOfFreeCells
        /\ StitchedSides(heap[Last]) =
              {<< <<0, 0>>, "Right">>, << <<4, 0>>, "Left">>, << <<4, 0>>, "Right">>,
               << <<6, 0>>, "Left">>}

(***************************************************************************)
(* C10 amended: the same scenario stitches (0,0) facing right, (4,0)       *)
(* facing bottom (the Solid border that Z requires) and (6,0) facing left. *)
(***************************************************************************)
ScenarioAStitchesBottom ==
    LinearMeasured =>
        /\ OneAncillaOfFreeCells
        /\ StitchedSides(heap[Last]) =
              {<< <<0, 0>>, "Right">>, << <<4, 0>>, "Bottom">>, << <<6, 0>>, "Left">>}

\* The scenario's request ran on the untouched linear layout and returned.
ScenarioAWitness ==
    /\ LinearMeasured
    /\ call.routed = LinearRequest
    /\ call.raised = "none"

(***************************************************************************)
(* C11  Scenario C: whenever the last snapshot holds no patch of kind      *)
(* Ancilla (a failed measureMultiPatch may have come before), clearAncilla *)
(* is a no-op: the lattice after the call equals the lattice before it.    *)
(***************************************************************************)
ClearAncillaNoOpWithoutAncilla ==
    (call.op = "clearAncilla" /\ AncillaPatches(call.before) = {}) =>
        heap[Last] = call.before

(***************************************************************************)
(* C12  Append-only history: the history starts as the single initial      *)
(* layout and is never empty; newTimeSlice lengthens it by exactly one,    *)
(* keeping the slices it had in their order and placing the new slice, a   *)
(* new object equal to the former last one, at the end; measureMultiPatch, *)
(* clearAncilla and clearLattice, failed or not, keep the history's length *)
(* and order and change no slice but the last; getSlices is the whole      *)
(* history in order.                                                       *)
(***************************************************************************)
AppendOnlyHistory ==
    /\ getSlices = <<CompactLayout>>
    /\ [][/\ qubit_patch_slices' # <<>>
          /\ Len(getSlices') = Len(qubit_patch_slices')
          /\ call'.op = "newTimeSlice" =>
                /\ Len(qubit_patch_slices') = Len(qubit_patch_slices) + 1
                /\ SubSeq(qubit_patch_slices', 1, Len(qubit_patch_slices)) = qubit_patch_slices
                /\ qubit_patch_slices'[Len(qubit_patch_slices')] \notin Range(qubit_patch_slices)
                /\ SubSeq(getSlices', 1, Len(getSlices)) = getSlices
                /\ getSlices'[Len(getSlices')] = getSlices[Len(getSlices)]
          /\ call'.op \in {"measureMultiPatch", "clearAncilla", "clearLattice"} =>
                /\ qubit_patch_slices' = qubit_patch_slices
                /\ \A i \in 1..(Len(getSlices) - 1) : getSlices'[i] = getSlices[i]
         ]_vars

\* A failed measureMultiPatch changed the last of at least two slices.
AppendOnlyHistoryWitness ==
    /\ LastIndex >= 2
    /\ Measured1
    /\ call.raised # "none"
    /\ heap[Last] # call.before
    /\ getSlices[LastIndex - 1] # getSlices[LastIndex]

(***************************************************************************)
(* C13  Border-algebra involution, as stated: unstitch(stitch(b)) = b for  *)
(* b in {Solid, Dashed}, and on every other border type (SolidStiched,     *)
(* DashedStiched, AncillaJoin) both stitch and unstitch return their       *)
(* argument unchanged.                                                     *)
(***************************************************************************)
\* An unstitch that follows a stitch of Solid or Dashed gives the type back.
UnstitchUndoesStitch ==
    (/\ call.op = "stitched_type"
     /\ call'.op = "unstitched_type"
     /\ call.before.border_type \in {"Solid", "Dashed"}) =>
        heap'[1].border_type = call.before.border_type

\* The step is a stitch of a type other than Solid and Dashed, and keeps it.
StitchFixesTheRest ==
    (call'.op = "stitched_type" /\ heap[1].border_type \notin {"Solid", "Dashed"}) =>
        heap'[1].border_type = heap[1].border_type

BorderInvolutionAllFixed ==
    [][/\ UnstitchUndoesStitch
       /\ StitchFixesTheRest
       /\ (call'.op = "unstitched_type" /\ heap[1].border_type \notin {"Solid", "Dashed"}) =>
              heap'[1].border_type = heap[1].border_type
      ]_vars

(***************************************************************************)
(* C13 amended: unstitch(stitch(b)) = b for b in {Solid, Dashed}; stitch   *)
(* returns SolidStiched, DashedStiched and AncillaJoin unchanged; unstitch *)
(* returns Solid, Dashed and AncillaJoin unchanged, and takes SolidStiched *)
(* to Solid and DashedStiched to Dashed.                                   *)
(***************************************************************************)
BorderInvolution ==
    [][/\ UnstitchUndoesStitch
       /\ StitchFixesTheRest
       /\ (call'.op = "unstitched_type" /\ heap[1].border_type \in {"Solid", "Dashed", "AncillaJoin"}) =>
              heap'[1].border_type = heap[1].border_type
       /\ (call'.op = "unstitched_type" /\ heap[1].border_type = "SolidStiched") =>
              heap'[1].border_type = "Solid"
       /\ (call'.op = "unstitched_type" /\ heap[1].border_type = "DashedStiched") =>
              heap'[1].border_type = "Dashed"
      ]_vars

\* Exactly two transforms were applied, a stitch and then an unstitch, and
\* the edge is Dashed again.
BorderInvolutionWitness ==
    /\ call.op = "unstitched_type"
    /\ ncalls = 2
    /\ nmeasures = 1
    /\ call.before.border_type = "DashedStiched"
    /\ heap[1].border_type = "Dashed"

(***************************************************************************)
(* C14  Direction convention: every path measureMultiPatch computes starts *)
(* at the source patch (the first key of the mapping), ends at its target  *)
(* patch, and every vertex strictly between the two is a cell that was     *)
(* free: no path goes through the vertex of a requested patch.  (A target  *)
(* that is not reached has the empty path, which has no vertices.)         *)
(***************************************************************************)
PathsThroughFreeCells ==
    Measured1 =>
        \A i \in DOMAIN call.shortest_paths :
            LET path == call.shortest_paths[i]
            IN  path # <<>> =>
                    /\ path[1] = call.routed[1][1]
                    /\ path[Len(path)] = call.routed[i + 1][1]
                    /\ \A k \in 2..(Len(path) - 1) :
                          /\ cellIsFree(call.before, path[k])
                          /\ path[k] \notin Range(RequestKeys(call.routed))

(***************************************************************************)
(* C15  Every appended slice is an independent copy of its predecessor,    *)
(* the one appended by initQubit included: a measureMultiPatch,            *)
(* clearAncilla or clearLattice on the last slice leaves the slice before  *)
(* it unchanged.                                                           *)
(***************************************************************************)
AppendedSlicesIndependent ==
    [][(/\ call'.op \in {"measureMultiPatch", "clearAncilla", "clearLattice"}
        /\ LastIndex >= 2) =>
           heap'[qubit_patch_slices'[LastIndex - 1]] = heap[qubit_patch_slices[LastIndex - 1]]
      ]_vars

(***************************************************************************)
(* C16  Measure/clear round trip: when the last snapshot has no stitched   *)
(* border and no Ancilla patch, a measureMultiPatch, returned or failed    *)
(* part-way, followed by clearAncilla leaves the snapshot exactly as it    *)
(* was before the measurement: the same patches in the same order, the     *)
(* same cells, every border of its original type.                          *)
(***************************************************************************)
MeasureClearRoundTrip ==
    [][(/\ Measured1
        /\ call'.op = "clearAncilla"
        /\ StitchedBorders(call.before) = {}
        /\ AncillaPatches(call.before) = {}) =>
           heap'[qubit_patch_slices'[Len(qubit_patch_slices')]] = call.before
      ]_vars

\* The two calls made so far were a measureMultiPatch that stitched borders
\* and appended an Ancilla patch, and the clearAncilla that undid both.
MeasureClearRoundTripWitness ==
    /\ call.op = "clearAncilla"
    /\ ncalls = 2
    /\ nmeasures = 1
    /\ StitchedBorders(call.before) # {}
    /\ AncillaPatches(call.before) # {}
    /\ heap[Last] = CompactLayout

(***************************************************************************)
(* C17  Measure frame and coverage: a measureMultiPatch with at least one  *)
(* target that returns leaves every patch not keyed in the request as it   *)
(* was (cells, kind, all border types), leaves the cell list of every      *)
(* patch that existed as it was, and leaves every requested patch, the     *)
(* source and each target, with at least one stitched border.              *)
(***************************************************************************)
\* The positions, in the lattice before the call, of the patches the request keys.
RequestedPatches ==
    {getPatchOfCell(call.before, RequestKeys(call.routed)[i]) : i \in DOMAIN call.routed}

MeasureFrameAndCoverage ==
    (Measured1 /\ call.raised = "none" /\ Len(call.routed) >= 2) =>
        /\ \A j \in DOMAIN call.before.patches :
              /\ heap[Last].patches[j].cells = call.before.patches[j].cells
              /\ j \notin RequestedPatches => heap[Last].patches[j] = call.before.patches[j]
        /\ \A j \in RequestedPatches :
              \E i \in DOMAIN heap[Last].patches[j].edges :
                  isStiched(heap[Last].patches[j].edges[i])

====
